---- MODULE Spec2Model ----
(***************************************************************************)
(* The blog data model of blog/models.py (Author, BlogPost, BlogPostImage) *)
(* as it is operated through the admin site of blog/admin.py: every model  *)
(* is registered unmodified, so each has the stock add, change, delete and *)
(* changelist views.  An add or change view validates the submitted form   *)
(* (field validators, then the model's unique checks) and saves only when  *)
(* there is no error; a delete view removes the row and everything that    *)
(* the on_delete rules collect with it.                                    *)
(*                                                                         *)
(* Strings are sequences of code points.  Form values are the values after *)
(* the form field has cleaned them, i.e. the values the model instance is  *)
(* built from.  Timestamps are readings of one clock; every request that   *)
(* saves a BlogPost happens strictly later than the previous one.          *)
(***************************************************************************)
EXTENDS Naturals, Sequences, FiniteSets

\* ---------------------------------------------------------------- bounds
\* MaxRows: rows inserted in one run, over the three tables together; no
\* table takes more than MaxPerTable of them.
\* MaxTime: the last clock reading, i.e. the number of BlogPost saves.
MaxRows == 5
MaxTime == 3
MaxPerTable == MaxRows - 3

\* ------------------------------------------------------- field parameters
name_max_length == 100
title_max_length == 255

Rep(c, n) == [i \in 1..n |-> c]

\* --------------------------------------------------------------- helpers
Put(f, k, v) == [x \in DOMAIN f \cup {k} |-> IF x = k THEN v ELSE f[x]]
Drop(f, ks) == [x \in DOMAIN f \ ks |-> f[x]]

\* validators.EmailValidator / validators.URLValidator, on the values the
\* forms below are submitted with
validate_email(value) == value = "ann@btu.edu.ge"
validate_url(value) == value = "https://btu.edu.ge"

\* A CharField / TextField of the form: required (blank=False), and at most
\* max_length code points long (max_length = 0: TextField, no limit).
CharField_errors(name, value, max_length) ==
    IF value = <<>> THEN {<<name, "required">>}
    ELSE IF max_length > 0 /\ Len(value) > max_length THEN {<<name, "max_length">>}
    ELSE {}

VARIABLES author, blog_post, blog_post_authors, blog_post_image,
          sequence, now, response

vars == <<author, blog_post, blog_post_authors, blog_post_image,
          sequence, now, response>>

store == <<author, blog_post, blog_post_authors, blog_post_image>>

\* What a view answers: a redirect after a successful POST, the form with
\* its errors after a failed one, the rows of a changelist.  Index is the
\* site's start page, before any of the model views is called.
Index == [template |-> "index", errors |-> {}, rows |-> <<>>]
Redirect == [template |-> "redirect", errors |-> {}, rows |-> <<>>]
FormErrors(errors) == [template |-> "change_form", errors |-> errors, rows |-> <<>>]
ChangeList(rows) == [template |-> "change_list", errors |-> {}, rows |-> rows]

\* Another row can be inserted into table within the bounds.
CanInsert(table) ==
    /\ sequence[table] < MaxPerTable
    /\ sequence.Author + sequence.BlogPost + sequence.BlogPostImage < MaxRows

Init ==
    /\ author = <<>>
    /\ blog_post = <<>>
    /\ blog_post_authors = {}
    /\ blog_post_image = <<>>
    /\ sequence = [Author |-> 0, BlogPost |-> 0, BlogPostImage |-> 0]
    /\ now = 0
    /\ response = Index

\* ================================================================ BlogPost
\* The admin form of BlogPost: its editable fields.  create_date and
\* update_date are auto_now_add / auto_now fields, which are not editable
\* and so are no part of the form.
\* A checkbox is left as the form shows it ("initial": the field's default on
\* the add form, the stored value on the change form), or set on or off.
BlogPostForms(Authors, Titles, Texts, Deleted) ==
    [authors : Authors, title : Titles, text : Texts, active : {"initial"},
     website : {"https://btu.edu.ge"}, document : {""}, deleted : Deleted]

BooleanField_clean(value, initial) ==
    IF value = "initial" THEN initial ELSE value = "on"

\* active = BooleanField(default=True), deleted = BooleanField(default=False)
active_default == TRUE
deleted_default == FALSE

\* authors: a ManyToManyField without blank=True, so the form requires a
\* choice, and every chosen pk must be a stored Author.
authors_errors(value) ==
    IF value = {} THEN {<<"authors", "required">>}
    ELSE IF ~(value \subseteq DOMAIN author) THEN {<<"authors", "invalid_choice">>}
    ELSE {}

\* Mutant of title_errors: no max_length.
title_errors_unbounded(value) == CharField_errors("title", value, 0)

title_errors(value) == CharField_errors("title", value, title_max_length)

text_errors(value) == CharField_errors("text", value, 0)

\* website: URLField(null=True) without blank=True: required in the form.
website_errors(value) ==
    IF value = "" THEN {<<"website", "required">>}
    ELSE IF ~validate_url(value) THEN {<<"website", "invalid">>}
    ELSE {}

\* Mutants of unique_together: the check left out, and the check made for
\* new rows only.
no_unique_together(title, text, pk) == FALSE

unique_together_on_add(title, text, pk) ==
    /\ pk = 0
    /\ \E p \in DOMAIN blog_post :
          blog_post[p].title = title /\ blog_post[p].text = text

\* unique_together = [['title', 'text']]: another stored row (not pk itself)
\* has the same title and the same text.
unique_together(title, text, pk) ==
    \E p \in DOMAIN blog_post :
        p # pk /\ blog_post[p].title = title /\ blog_post[p].text = text

\* Form validation: the field errors, then the unique check, which is run
\* only when neither of its fields has failed.
BlogPostForm_errors(form, pk) ==
    LET fields == authors_errors(form.authors) \cup title_errors(form.title)
                  \cup text_errors(form.text) \cup website_errors(form.website)
    IN  fields \cup
        (IF title_errors(form.title) = {} /\ text_errors(form.text) = {}
            /\ unique_together(form.title, form.text, pk)
         THEN {<<"__all__", "unique_together">>} ELSE {})

\* Mutant of update_date_pre_save: auto_now_add in the place of auto_now.
update_date_auto_now_add(value, add, t) == IF add THEN t ELSE value

\* DateTimeField.pre_save of create_date (auto_now_add=True) and of
\* update_date (auto_now=True): add is TRUE on the INSERT of a new row.
create_date_pre_save(value, add, t) == IF add THEN t ELSE value
update_date_pre_save(value, add, t) == t

BlogPostRow(form, active, deleted, create_date, update_date) ==
    [title |-> form.title, text |-> form.text,
     active |-> BooleanField_clean(form.active, active),
     create_date |-> create_date, update_date |-> update_date,
     website |-> form.website, document |-> form.document,
     deleted |-> BooleanField_clean(form.deleted, deleted)]

\* The rows of the junction table after the authors of post pk are set.
set_authors(pk, authors) ==
    {l \in blog_post_authors : l.blogpost_id # pk}
    \cup {[blogpost_id |-> pk, author_id |-> a] : a \in authors}

add_view_BlogPost(form) ==
    LET errors == BlogPostForm_errors(form, 0)
        pk == sequence.BlogPost + 1
        t == now + 1
    IN  \/ /\ errors # {}
           /\ response' = FormErrors(errors)
           /\ UNCHANGED <<store, sequence, now>>
        \/ /\ errors = {}
           /\ CanInsert("BlogPost")
           /\ t <= MaxTime
           /\ blog_post' = Put(blog_post, pk,
                  BlogPostRow(form, active_default, deleted_default,
                              create_date_pre_save(0, TRUE, t),
                              update_date_pre_save(0, TRUE, t)))
           /\ blog_post_authors' = set_authors(pk, form.authors)
           /\ sequence' = [sequence EXCEPT !.BlogPost = pk]
           /\ now' = t
           /\ response' = Redirect
           /\ UNCHANGED <<author, blog_post_image>>

change_view_BlogPost(pk, form) ==
    LET errors == BlogPostForm_errors(form, pk)
        t == now + 1
    IN  /\ pk \in DOMAIN blog_post
        /\ \/ /\ errors # {}
              /\ response' = FormErrors(errors)
              /\ UNCHANGED <<store, sequence, now>>
           \/ /\ errors = {}
              /\ t <= MaxTime
              /\ blog_post' = Put(blog_post, pk,
                     BlogPostRow(form, blog_post[pk].active, blog_post[pk].deleted,
                        create_date_pre_save(blog_post[pk].create_date, FALSE, t),
                        update_date_pre_save(blog_post[pk].update_date, FALSE, t)))
              /\ blog_post_authors' = set_authors(pk, form.authors)
              /\ now' = t
              /\ response' = Redirect
              /\ UNCHANGED <<author, blog_post_image, sequence>>

\* Mutant of blog_post_CASCADE: on_delete=models.DO_NOTHING.
blog_post_DO_NOTHING(pks) == {}

\* on_delete=models.CASCADE of BlogPostImage.blog_post: the images that are
\* deleted with the posts pks.
blog_post_CASCADE(pks) ==
    {i \in DOMAIN blog_post_image : blog_post_image[i].blog_post_id \in pks}

delete_view_BlogPost(pk) ==
    /\ pk \in DOMAIN blog_post
    /\ blog_post' = Drop(blog_post, {pk})
    /\ blog_post_image' = Drop(blog_post_image, blog_post_CASCADE({pk}))
    /\ blog_post_authors' = {l \in blog_post_authors : l.blogpost_id # pk}
    /\ response' = Redirect
    /\ UNCHANGED <<author, sequence, now>>

\* ordering = ['title']: byte-wise comparison of the titles.
RECURSIVE title_lt(_, _)
title_lt(s, t) ==
    IF t = <<>> THEN FALSE
    ELSE IF s = <<>> THEN TRUE
    ELSE IF Head(s) # Head(t) THEN Head(s) < Head(t)
    ELSE title_lt(Tail(s), Tail(t))

\* Mutant of ordering: no ordering, rows come by pk.
ordering_by_pk(p, q) == p <= q

\* Row p is listed before row q: by title, and among equal titles the
\* changelist breaks the tie by descending pk.
ordering(p, q) ==
    \/ p = q
    \/ blog_post[p].title # blog_post[q].title
          /\ title_lt(blog_post[p].title, blog_post[q].title)
    \/ blog_post[p].title = blog_post[q].title /\ p > q

RECURSIVE order_by(_)
order_by(pks) ==
    IF pks = {} THEN <<>>
    ELSE LET first == CHOOSE p \in pks : \A q \in pks : ordering(p, q)
         IN  <<first>> \o order_by(pks \ {first})

\* Mutant of BlogPost_objects: a manager that hides the soft-deleted rows.
BlogPost_not_deleted == {pk \in DOMAIN blog_post : ~blog_post[pk].deleted}

\* The default manager: every stored row.
BlogPost_objects == DOMAIN blog_post

changelist_view_BlogPost ==
    /\ response' = ChangeList(order_by(BlogPost_objects))
    /\ UNCHANGED <<store, sequence, now>>

\* ================================================================== Author
AuthorForms ==
    [first_name : {<<65>>}, last_name : {<<66>>}, email : {"ann@btu.edu.ge", "ann"}]

email_errors(value) ==
    IF value = "" THEN {<<"email", "required">>}
    ELSE IF ~validate_email(value) THEN {<<"email", "invalid">>}
    ELSE {}

AuthorForm_errors(form) ==
    CharField_errors("first_name", form.first_name, name_max_length)
    \cup CharField_errors("last_name", form.last_name, name_max_length)
    \cup email_errors(form.email)

add_view_Author(form) ==
    LET errors == AuthorForm_errors(form)
        pk == sequence.Author + 1
    IN  \/ /\ errors # {}
           /\ response' = FormErrors(errors)
           /\ UNCHANGED <<store, sequence, now>>
        \/ /\ errors = {}
           /\ CanInsert("Author")
           /\ author' = Put(author, pk, form)
           /\ sequence' = [sequence EXCEPT !.Author = pk]
           /\ response' = Redirect
           /\ UNCHANGED <<blog_post, blog_post_authors, blog_post_image, now>>

change_view_Author(pk, form) ==
    LET errors == AuthorForm_errors(form)
    IN  /\ pk \in DOMAIN author
        /\ response' = IF errors = {} THEN Redirect ELSE FormErrors(errors)
        /\ author' = IF errors = {} THEN Put(author, pk, form) ELSE author
        /\ UNCHANGED <<blog_post, blog_post_authors, blog_post_image,
                       sequence, now>>

\* Mutant of authors_CASCADE: the junction rows are left behind.
authors_CASCADE_none(pks) == blog_post_authors

\* Deleting Authors collects the rows of the junction table of
\* BlogPost.authors that name them, and nothing else: the rows that stay.
authors_CASCADE(pks) == {l \in blog_post_authors : l.author_id \notin pks}

delete_view_Author(pk) ==
    /\ pk \in DOMAIN author
    /\ author' = Drop(author, {pk})
    /\ blog_post_authors' = authors_CASCADE({pk})
    /\ response' = Redirect
    /\ UNCHANGED <<blog_post, blog_post_image, sequence, now>>

\* =========================================================== BlogPostImage
\* blog_post = 0: no post chosen in the form.
BlogPostImageForms ==
    [blog_post : 0..sequence.BlogPost, image : {"blog_image/a.png"}]

\* Mutant of blog_post_errors: the chosen pk is not looked up.
blog_post_errors_unchecked(value) ==
    IF value = 0 THEN {<<"blog_post", "required">>} ELSE {}

\* blog_post: a ForeignKey without null=True or blank=True: the form requires
\* a choice, and the chosen pk must be a stored BlogPost.
blog_post_errors(value) ==
    IF value = 0 THEN {<<"blog_post", "required">>}
    ELSE IF value \notin DOMAIN blog_post THEN {<<"blog_post", "invalid_choice">>}
    ELSE {}

image_errors(value) == IF value = "" THEN {<<"image", "required">>} ELSE {}

BlogPostImageForm_errors(form) ==
    blog_post_errors(form.blog_post) \cup image_errors(form.image)

BlogPostImageRow(form) == [blog_post_id |-> form.blog_post, image |-> form.image]

add_view_BlogPostImage(form) ==
    LET errors == BlogPostImageForm_errors(form)
        pk == sequence.BlogPostImage + 1
    IN  \/ /\ errors # {}
           /\ response' = FormErrors(errors)
           /\ UNCHANGED <<store, sequence, now>>
        \/ /\ errors = {}
           /\ CanInsert("BlogPostImage")
           /\ blog_post_image' = Put(blog_post_image, pk, BlogPostImageRow(form))
           /\ sequence' = [sequence EXCEPT !.BlogPostImage = pk]
           /\ response' = Redirect
           /\ UNCHANGED <<author, blog_post, blog_post_authors, now>>

change_view_BlogPostImage(pk, form) ==
    LET errors == BlogPostImageForm_errors(form)
    IN  /\ pk \in DOMAIN blog_post_image
        /\ response' = IF errors = {} THEN Redirect ELSE FormErrors(errors)
        /\ blog_post_image' =
              IF errors = {} THEN Put(blog_post_image, pk, BlogPostImageRow(form))
              ELSE blog_post_image
        /\ UNCHANGED <<author, blog_post, blog_post_authors, sequence, now>>

delete_view_BlogPostImage(pk) ==
    /\ pk \in DOMAIN blog_post_image
    /\ blog_post_image' = Drop(blog_post_image, {pk})
    /\ response' = Redirect
    /\ UNCHANGED <<author, blog_post, blog_post_authors, sequence, now>>

\* ========================================================= specifications
\* Every pk a table has handed out: the pks a form or a link can name.
AuthorIds == 1..sequence.Author
BlogPostIds == 1..sequence.BlogPost
BlogPostImageIds == 1..sequence.BlogPostImage

AuthorViews ==
    \/ \E form \in AuthorForms : add_view_Author(form)
    \/ \E pk \in AuthorIds, form \in AuthorForms : change_view_Author(pk, form)
    \/ \E pk \in AuthorIds : delete_view_Author(pk)

BlogPostImageViews ==
    \/ \E form \in BlogPostImageForms : add_view_BlogPostImage(form)
    \/ \E pk \in BlogPostImageIds, form \in BlogPostImageForms :
          change_view_BlogPostImage(pk, form)
    \/ \E pk \in BlogPostImageIds : delete_view_BlogPostImage(pk)

BlogPostViews(Authors, Titles, Texts, Deleted) ==
    \/ \E form \in BlogPostForms(Authors, Titles, Texts, Deleted) :
          add_view_BlogPost(form)
    \/ \E pk \in BlogPostIds, form \in BlogPostForms(Authors, Titles, Texts, Deleted) :
          change_view_BlogPost(pk, form)
    \/ \E pk \in BlogPostIds : delete_view_BlogPost(pk)
    \/ changelist_view_BlogPost

\* The choices of authors a BlogPost form is submitted with: none, one, or
\* all of the pks handed out so far.
AuthorChoices == {{}} \cup {{a} : a \in AuthorIds} \cup {AuthorIds}

\* The whole admin site.
Next ==
    \/ AuthorViews
    \/ BlogPostImageViews
    \/ BlogPostViews(AuthorChoices, {<<97>>, <<98>>}, {<<120>>}, {"initial"})

Spec == Init /\ [][Next]_vars

\* The BlogPost views alone (an Author has to be added first), with the
\* values of the form that the unique check tells apart ...
UniqueForms ==
    BlogPostForms({{1}}, {<<97>>, <<98>>}, {<<120>>, <<121>>}, {"initial"})

NextUnique ==
    \/ \E form \in AuthorForms : add_view_Author(form)
    \/ BlogPostViews({{1}}, {<<97>>, <<98>>}, {<<120>>, <<121>>}, {"initial"})

SpecUnique == Init /\ [][NextUnique]_vars

\* ... with titles around max_length, and titles that sort differently by
\* title and by pk ...
TitleInputs ==
    {<<>>, <<97>>, <<98>>, Rep(97, title_max_length), Rep(97, title_max_length + 1)}

TitleForms == BlogPostForms({{1}}, TitleInputs, {<<120>>, <<121>>}, {"initial"})

NextTitle ==
    \/ \E form \in AuthorForms : add_view_Author(form)
    \/ BlogPostViews({{1}}, TitleInputs, {<<120>>, <<121>>}, {"initial"})

SpecTitle == Init /\ [][NextTitle]_vars

\* ... and, beside the BlogPostImage views, with the deleted flag set and
\* cleared.
DeletedForms ==
    BlogPostForms({{}, {1}}, {<<97>>}, {<<120>>, <<121>>}, {"initial", "on", "off"})

NextDeleted ==
    \/ \E form \in AuthorForms : add_view_Author(form)
    \/ BlogPostImageViews
    \/ BlogPostViews({{}, {1}}, {<<97>>}, {<<120>>, <<121>>},
                     {"initial", "on", "off"})

SpecDeleted == Init /\ [][NextDeleted]_vars

\* ================================================================== claims
Authors_of(pk) == {l.author_id : l \in {x \in blog_post_authors : x.blogpost_id = pk}}
Images_of(pk) == {i \in DOMAIN blog_post_image : blog_post_image[i].blog_post_id = pk}

\* s sorts before t, or is t: they agree up to some position, where s ends
\* or has the smaller code point.
LexLeq(s, t) ==
    \E k \in 0..Len(s) :
        /\ k <= Len(t)
        /\ \A i \in 1..k : s[i] = t[i]
        /\ k = Len(s) \/ (k < Len(t) /\ s[k + 1] < t[k + 1])

\* C1: in every reachable state no two distinct stored BlogPost rows have the
\* same title and the same text, whether they got them by an add or a change.
C1_UniqueTitleText ==
    \A p, q \in DOMAIN blog_post :
        p # q => \/ blog_post[p].title # blog_post[q].title
                 \/ blog_post[p].text # blog_post[q].text

\* Two posts that share their title after one of them was changed, and a
\* request that was refused by the unique check.
C1_Witness ==
    /\ \E p, q \in DOMAIN blog_post :
          /\ p # q
          /\ blog_post[p].title = blog_post[q].title
          /\ blog_post[p].update_date > blog_post[p].create_date
    /\ <<"__all__", "unique_together">> \in response.errors

\* C2: a step that deletes BlogPost pk removes exactly the BlogPostImage rows
\* whose blog_post is pk, and leaves every other BlogPostImage row as it was.
C2_DeleteCascades ==
    [][\A pk \in DOMAIN blog_post \ DOMAIN blog_post' :
          /\ DOMAIN blog_post_image' = DOMAIN blog_post_image \ Images_of(pk)
          /\ \A i \in DOMAIN blog_post_image' :
                blog_post_image'[i] = blog_post_image[i]]_vars

\* Two posts and two images were added; one post is gone, and of the images
\* the one of the other post is left.
C2_Witness ==
    /\ sequence.BlogPost = 2 /\ sequence.BlogPostImage = 2
    /\ \E pk \in DOMAIN blog_post :
          /\ DOMAIN blog_post = {pk}
          /\ Cardinality(DOMAIN blog_post_image) = 1
          /\ Images_of(pk) = DOMAIN blog_post_image
    /\ response = Redirect

\* C3: create_date of a row is the clock reading of the step that inserts it
\* and no later step changes it; every later save of the row gives
\* update_date a value other than the one it had.
C3_Dates ==
    [][/\ \A pk \in DOMAIN blog_post' \ DOMAIN blog_post :
             blog_post'[pk].create_date = now'
       /\ \A pk \in DOMAIN blog_post \cap DOMAIN blog_post' :
             /\ blog_post'[pk].create_date = blog_post[pk].create_date
             /\ \/ blog_post'[pk].update_date # blog_post[pk].update_date
                \/ \A form \in UniqueForms :
                      ~(response' = Redirect /\ change_view_BlogPost(pk, form))]_vars

\* A post that was saved twice after it was added.
C3_Witness ==
    \E pk \in DOMAIN blog_post :
        blog_post[pk].update_date >= blog_post[pk].create_date + 2

\* C4, as claimed: a BlogPost is added with an empty set of authors, i.e. the
\* add view does not refuse a form for naming no author.
C4_EmptyAuthorsAccepted ==
    [][\A form \in BlogPostForms({{}}, {<<97>>, <<98>>}, {<<120>>}, {"initial"}) :
          add_view_BlogPost(form)
          => <<"authors", "required">> \notin response'.errors]_vars

\* C5: adding a BlogPost whose title and text are those of a stored BlogPost
\* is answered with the form and its unique_together error, and leaves the
\* four tables as they were.
C5_DuplicateAddFails ==
    [][\/ /\ response'.template = "change_form"
          /\ <<"__all__", "unique_together">> \in response'.errors
          /\ store' = store
       \/ \A form \in UniqueForms :
             ~(/\ \E p \in DOMAIN blog_post :
                    blog_post[p].title = form.title /\ blog_post[p].text = form.text
               /\ add_view_BlogPost(form))]_vars

\* The only post ever added is stored and was never changed, and a request
\* was refused by the unique check: it was an add, a change of the only post
\* has no other post to collide with.
C5_Witness ==
    /\ sequence.BlogPost = 1 /\ DOMAIN blog_post = {1}
    /\ blog_post[1].update_date = blog_post[1].create_date
    /\ <<"__all__", "unique_together">> \in response.errors

\* C6: adding a BlogPost with a title of more than 255 code points is
\* answered with the form and the title's max_length error and stores
\* nothing; with a title of at most 255 there is no max_length error.
C6_TitleLength ==
    [][/\ \/ /\ response'.template = "change_form"
             /\ <<"title", "max_length">> \in response'.errors
             /\ store' = store
          \/ \A form \in TitleForms :
                ~(Len(form.title) > 255 /\ add_view_BlogPost(form))
       /\ \/ <<"title", "max_length">> \notin response'.errors
          \/ \A form \in TitleForms :
                ~(Len(form.title) <= 255 /\ add_view_BlogPost(form))]_vars

\* A post added with a title of exactly 255 code points and never changed,
\* and a request refused for the length of its title.
C6_Witness ==
    /\ \E pk \in DOMAIN blog_post :
          /\ Len(blog_post[pk].title) = 255
          /\ blog_post[pk].update_date = blog_post[pk].create_date
    /\ <<"title", "max_length">> \in response.errors

\* C7: a changelist of BlogPost holds every stored post exactly once, in
\* non-decreasing lexicographic order of title.
C7_ListedByTitle ==
    response.template = "change_list" =>
        LET rows == response.rows
        IN  /\ {rows[i] : i \in 1..Len(rows)} = DOMAIN blog_post
            /\ Len(rows) = Cardinality(DOMAIN blog_post)
            /\ \A i, j \in 1..Len(rows) :
                  i < j => LexLeq(blog_post[rows[i]].title, blog_post[rows[j]].title)

\* A changelist that lists a later post before an earlier one, one title
\* being a proper prefix of the other or differing from it.
C7_Witness ==
    /\ response.template = "change_list"
    /\ Len(response.rows) = 2
    /\ response.rows[1] > response.rows[2]
    /\ blog_post[response.rows[1]].title # blog_post[response.rows[2]].title

\* C8: a step that deletes Author a removes that Author row and the junction
\* rows that name a, and nothing else: the other Authors, every BlogPost,
\* every BlogPostImage and the other junction rows are as they were.
C8_DeleteAuthor ==
    [][\A a \in DOMAIN author \ DOMAIN author' :
          /\ DOMAIN author' = DOMAIN author \ {a}
          /\ \A b \in DOMAIN author' : author'[b] = author[b]
          /\ blog_post' = blog_post
          /\ blog_post_image' = blog_post_image
          /\ blog_post_authors' = {l \in blog_post_authors : l.author_id # a}]_vars

\* A post with an image is left with no author (no form saves such a post:
\* its author was deleted), beside a post that has kept its author.
C8_Witness ==
    /\ \E p \in DOMAIN blog_post : Authors_of(p) = {} /\ Images_of(p) # {}
    /\ \E q \in DOMAIN blog_post : Authors_of(q) # {}
    /\ Cardinality(DOMAIN author) < sequence.Author

\* C9: a BlogPost added with the deleted checkbox left alone has deleted =
\* FALSE; a change that sets deleted keeps the row, its images and its author
\* links; and a changelist lists the posts that have deleted = TRUE too.
C9_SoftDelete ==
    [][/\ response' = Redirect =>
            \A pk \in DOMAIN blog_post' \ DOMAIN blog_post :
                \/ ~blog_post'[pk].deleted
                \/ \A form \in DeletedForms :
                      ~(form.deleted = "initial" /\ add_view_BlogPost(form))
       /\ response' = Redirect =>
            \A pk \in DOMAIN blog_post :
                \/ /\ pk \in DOMAIN blog_post' /\ blog_post'[pk].deleted
                   /\ blog_post_image' = blog_post_image
                   /\ blog_post_authors' = blog_post_authors
                \/ \A form \in DeletedForms :
                      ~(/\ form.deleted = "on" /\ form.authors = Authors_of(pk)
                        /\ change_view_BlogPost(pk, form))
       /\ response'.template = "change_list" =>
            \A pk \in DOMAIN blog_post' :
                \E i \in 1..Len(response'.rows) : response'.rows[i] = pk]_vars

\* A changelist that lists a post that has deleted = TRUE, an author and an
\* image.
C9_Witness ==
    /\ response.template = "change_list"
    /\ \E i \in 1..Len(response.rows) :
          /\ blog_post[response.rows[i]].deleted
          /\ Authors_of(response.rows[i]) # {}
          /\ Images_of(response.rows[i]) # {}

\* C10: in every reachable state every stored BlogPostImage names one
\* BlogPost, and that BlogPost is stored.
C10_ImageHasPost ==
    \A i \in DOMAIN blog_post_image :
        blog_post_image[i].blog_post_id \in DOMAIN blog_post

\* An image is stored after a post was deleted, and an image form that named
\* no post was refused.
C10_Witness ==
    /\ DOMAIN blog_post_image # {}
    /\ Cardinality(DOMAIN blog_post) < sequence.BlogPost
    /\ <<"blog_post", "required">> \in response.errors

====
